---- MODULE Spec2Model ----
(***************************************************************************)
(* knoxite: the Amazon S3 storage backend                                  *)
(* (storage/amazons3/storage_amazons3.go) and the snapshot pipeline        *)
(* (lib/snapshot.go).                                                      *)
(*                                                                         *)
(* Specifications:                                                         *)
(*   SpecS3    concurrent callers of StorageAmazonS3.StoreChunk            *)
(*   SpecInit  StorageAmazonS3.InitRepository                              *)
(*   SpecAdd   one run of Snapshot.Add: discovery, stage 2, the consumer   *)
(*   SpecAddFair  SpecAdd with every goroutine scheduled fairly            *)
(*   SpecPath  the path rewrite of gatherTargetInformation and Add         *)
(*   SpecSave  Snapshot.Save followed by openSnapshot                      *)
(***************************************************************************)
EXTENDS Integers, Sequences, FiniteSets, TLC

VARIABLES
    objects,        \* chunk bucket: blob name -> stored data (NoObject when absent)
    calls,          \* StoreChunk callers: position, arguments, results
    buckets,        \* the buckets that exist on the S3 service
    initPc,         \* InitRepository: position of the call
    initResult,     \* InitRepository: returned error
    bucketsBefore,  \* the buckets that existed when InitRepository was called
    backend,        \* the StorageAmazonS3 value NewBackend returned
    cwd,            \* Add: the working directory
    gPc,            \* gatherTargetInformation: position
    gCur,           \* gatherTargetInformation: the result in hand
    found,          \* number of results findFiles has yielded
    forwarders,     \* results held by goroutines blocked in "out <- r"
    fwdClosed,      \* the fwd channel is closed
    mutex,          \* holder of the snapshot's mutex
    stats,          \* snapshot.Stats
    archives,       \* snapshot.Archives: path -> archive
    index,          \* chunkIndex: back-references (hash, archive)
    sPc,            \* stage 2 (the goroutine of Add): position
    sCur,           \* stage 2: the archive in hand
    sPos,           \* stage 2: chunks the chunker has emitted for the file in hand
    sEvent,         \* stage 2: the Progress value p
    progress,       \* the progress channel: "open" or "closed"
    consumer,       \* the receiver of the progress channel
    lastEvent,      \* the last event sent on the progress channel
    errorEvents,    \* results for which an event with a non-nil error was sent
    terminal,       \* the terminal error the pipeline stopped on
    vanished,       \* results whose file was gone when chunkFile opened it
    closeCount,     \* number of close(progress) executed
    openState,      \* what stage 2 saw when it opened the file in hand
    lastRecv,       \* the number of the result stage 2 received last
    pCwd,           \* path rewrite: the working directory
    pPath,          \* path rewrite: the path findFiles discovered
    pArchive,       \* path rewrite: archive.Path
    pStage,         \* path rewrite: "found", "gathered" (line 60) or "added" (line 101)
    svSnapshot,     \* Save: the snapshot
    svRepo,         \* Save and openSnapshot: the repository's version and password
    svStore,        \* the snapshot bucket: snapshot ID -> bytes
    svPc,           \* Save and openSnapshot: position
    svErr,          \* the error Save or openSnapshot returned
    svOpened        \* the snapshot openSnapshot returned

s3vars == <<objects, calls>>
initvars == <<buckets, initPc, initResult, bucketsBefore, backend>>
addvars == <<cwd, gPc, gCur, found, forwarders, fwdClosed, mutex, stats, archives,
             index, sPc, sCur, sPos, sEvent, progress, consumer, lastEvent,
             errorEvents, terminal, vanished, closeCount, openState, lastRecv>>
pathvars == <<pCwd, pPath, pArchive, pStage>>
savevars == <<svSnapshot, svRepo, svStore, svPc, svErr, svOpened>>
vars == <<objects, calls, buckets, initPc, initResult, bucketsBefore, backend,
          cwd, gPc, gCur, found, forwarders, fwdClosed, mutex, stats, archives,
          index, sPc, sCur, sPos, sEvent, progress, consumer, lastEvent,
          errorEvents, terminal, vanished, closeCount, openState, lastRecv,
          pCwd, pPath, pArchive, pStage,
          svSnapshot, svRepo, svStore, svPc, svErr, svOpened>>

----------------------------------------------------------------------------
(* Bounds *)

NumCallers == 2      \* concurrent callers of StoreChunk
TotalShards == 2     \* shards of a chunk (data parts + parity parts)
MaxData == 2         \* number of distinct shard payloads; payload d is d bytes long

Callers == 1..NumCallers
Data == 1..MaxData
NoObject == 0
Hashes == {<<"a">>, <<"b">>}

\* error values
Nil == "nil"
ErrClient == "client error"
ErrRepositoryExists == "ErrRepositoryExists"

----------------------------------------------------------------------------
(* storage_amazons3.go: blob names *)

DigitChar == <<"0", "1", "2", "3", "4", "5", "6", "7", "8", "9">>

RECURSIVE FormatUint(_)
\* strconv.FormatUint(n, 10)
FormatUint(n) ==
    IF n < 10 THEN <<DigitChar[n + 1]>>
    ELSE FormatUint(n \div 10) \o <<DigitChar[(n % 10) + 1]>>

\* fileName := shasum + "." + FormatUint(part) + "_" + FormatUint(totalParts)
FileName(shasum, part, totalParts) ==
    shasum \o <<".">> \o FormatUint(part) \o <<"_">> \o FormatUint(totalParts)

\* the (part, totalParts) pairs the shards of a chunk are stored under
ShardArgs == {<<p, TotalShards>> : p \in 0..(TotalShards - 1)}

BlobNames == {FileName(h, pt[1], pt[2]) : h \in Hashes, pt \in ShardArgs}

----------------------------------------------------------------------------
(* The minio client, as StoreChunk and InitRepository see it.  Every call  *)
(* can fail; a call that succeeds tells the truth.                         *)

\* client.StatObject(bucket, name): the errors it can return
StatObject(objs, name) ==
    IF objs[name] # NoObject THEN {Nil, ErrClient} ELSE {ErrClient}

\* client.PutObject(bucket, name, data): the (objects, n, err) it can produce
PutObject(objs, name, data) ==
    { [objects |-> [objs EXCEPT ![name] = data], n |-> data, err |-> Nil],
      [objects |-> objs, n |-> 0, err |-> ErrClient] }

\* StorageAmazonS3.StoreChunk run without interruption: the (objects, size, err)
\* it can produce
StoreChunk(objs, shasum, part, totalParts, data) ==
    LET fileName == FileName(shasum, part, totalParts) IN
    UNION { IF err = Nil
            THEN { [objects |-> objs, size |-> 0, err |-> Nil] }
            ELSE { [objects |-> r.objects, size |-> r.n, err |-> r.err] :
                     r \in PutObject(objs, fileName, data) }
            : err \in StatObject(objs, fileName) }

----------------------------------------------------------------------------
(* StorageAmazonS3.StoreChunk, one caller's steps *)

IdleCall ==
    [pc |-> "idle", name |-> <<>>, data |-> NoObject, pre |-> NoObject,
     post |-> NoObject, size |-> 0, err |-> Nil, uploaded |-> FALSE, conc |-> {}]

InFlight(c) == calls[c].pc = "put"

\* lines 115-120: build the name, StatObject, return 0 when it succeeds
StoreChunkStat(c) ==
    /\ calls[c].pc = "idle"
    /\ \E h \in Hashes, pt \in ShardArgs, d \in Data :
         LET fileName == FileName(h, pt[1], pt[2])
             others == {o \in Callers \ {c} : InFlight(o)}
         IN \E err \in StatObject(objects, fileName) :
              calls' = [o \in Callers |->
                  IF o = c
                  THEN [pc |-> IF err = Nil THEN "done" ELSE "put",
                        name |-> fileName, data |-> d, pre |-> objects[fileName],
                        post |-> objects[fileName],
                        size |-> 0, err |-> Nil, uploaded |-> FALSE,
                        conc |-> others]
                  ELSE IF o \in others
                       THEN [calls[o] EXCEPT !.conc = @ \cup {c}]
                       ELSE calls[o]]
    /\ UNCHANGED <<objects, initvars, addvars, pathvars, savevars>>

\* lines 122-124: PutObject, return its size and error
StoreChunkPut(c) ==
    /\ calls[c].pc = "put"
    /\ \E r \in PutObject(objects, calls[c].name, calls[c].data) :
         /\ objects' = r.objects
         /\ calls' = [calls EXCEPT ![c].pc = "done", ![c].size = r.n,
                                   ![c].err = r.err,
                                   ![c].post = r.objects[calls[c].name],
                                   ![c].uploaded = (r.err = Nil)]
    /\ UNCHANGED <<initvars, addvars, pathvars, savevars>>

\* the caller takes the result; it may call again
StoreChunkReturn(c) ==
    /\ calls[c].pc = "done"
    /\ calls' = [o \in Callers |->
                   IF o = c THEN IdleCall
                   ELSE [calls[o] EXCEPT !.conc = @ \ {c}]]
    /\ UNCHANGED <<objects, initvars, addvars, pathvars, savevars>>

----------------------------------------------------------------------------
(* StorageAmazonS3.NewBackend and StorageAmazonS3.InitRepository *)

RECURSIVE Split(_, _)
\* strings.Split(s, sep) for a one-character separator; s is a sequence of characters
Split(s, sep) ==
    IF s = <<>> THEN << <<>> >>
    ELSE LET rest == Split(Tail(s), sep) IN
         IF Head(s) = sep THEN << <<>> >> \o rest
         ELSE << <<Head(s)>> \o Head(rest) >> \o Tail(rest)

\* URL.Path values handed to NewBackend: "/r/p", "/r/q" and the malformed "/p"
URLPaths == { <<"/", "r", "/", "p">>, <<"/", "r", "/", "q">>, <<"/", "p">> }

NoBackend == [region |-> <<>>, chunkBucket |-> <<>>, snapshotBucket |-> <<>>,
              repositoryBucket |-> <<>>]

\* lines 58-74: the region and the three bucket names, from the URL path
BackendFor(path) ==
    LET regionAndBucketPrefix == Split(path, "/") IN
    IF Len(regionAndBucketPrefix) # 3 THEN NoBackend
    ELSE [region |-> regionAndBucketPrefix[2],
          chunkBucket |-> regionAndBucketPrefix[3] \o <<"-chunks">>,
          snapshotBucket |-> regionAndBucketPrefix[3] \o <<"-snapshots">>,
          repositoryBucket |-> regionAndBucketPrefix[3] \o <<"-repository">>]

BackendBuckets(be) == {be.chunkBucket, be.snapshotBucket, be.repositoryBucket}

\* every bucket name a backend of URLPaths can have
BucketNames == UNION {BackendBuckets(BackendFor(u)) : u \in URLPaths} \ {<<>>}

\* client.BucketExists(bucket): the (exist, err) it can return
BucketExists(bs, b) ==
    { [exist |-> b \in bs, err |-> Nil], [exist |-> FALSE, err |-> ErrClient] }

\* client.MakeBucket(bucket, region): the (buckets, err) it can produce
MakeBucket(bs, b) ==
    IF b \in bs THEN { [buckets |-> bs, err |-> ErrClient] }
    ELSE { [buckets |-> bs \cup {b}, err |-> Nil], [buckets |-> bs, err |-> ErrClient] }

\* the bucket each of the three blocks of InitRepository works on
InitBucketAt(pc) ==
    CASE pc = "chunk" -> backend.chunkBucket
      [] pc = "snapshot" -> backend.snapshotBucket
      [] pc = "repository" -> backend.repositoryBucket

\* the block that follows, or the final return nil
InitAfter(pc) ==
    CASE pc = "chunk" -> "snapshot"
      [] pc = "snapshot" -> "repository"
      [] pc = "repository" -> "done"

\* NewBackend: a path that does not split in three gives ErrInvalidRepositoryURL
NewBackend ==
    /\ initPc = "idle"
    /\ \E u \in URLPaths : backend' = BackendFor(u)
    /\ UNCHANGED <<buckets, initPc, initResult, bucketsBefore, s3vars, addvars, pathvars, savevars>>

InitRepositoryCall ==
    /\ initPc = "idle"
    /\ backend # NoBackend
    /\ initPc' = "chunk"
    /\ bucketsBefore' = buckets
    /\ initResult' = Nil
    /\ UNCHANGED <<buckets, backend, s3vars, addvars, pathvars, savevars>>

\* a variant of InitBlock that goes on with a bucket that already exists
InitBlockReuse(pc, bs, e, m) ==
    IF e.err # Nil THEN [buckets |-> bs, result |-> e.err, pc |-> "done"]
    ELSE IF ~e.exist
    THEN IF m.err # Nil THEN [buckets |-> m.buckets, result |-> m.err, pc |-> "done"]
         ELSE [buckets |-> m.buckets, result |-> Nil, pc |-> InitAfter(pc)]
    ELSE [buckets |-> bs, result |-> Nil, pc |-> InitAfter(pc)]

\* what one block does with the answers e of BucketExists and m of MakeBucket:
\* lines 167-178, 180-191 and 193-204
InitBlock(pc, bs, e, m) ==
    IF e.err # Nil THEN [buckets |-> bs, result |-> e.err, pc |-> "done"]
    ELSE IF ~e.exist
    THEN IF m.err # Nil THEN [buckets |-> m.buckets, result |-> m.err, pc |-> "done"]
         ELSE [buckets |-> m.buckets, result |-> Nil, pc |-> InitAfter(pc)]
    ELSE [buckets |-> bs, result |-> ErrRepositoryExists, pc |-> "done"]

\* one of the three blocks: BucketExists, then MakeBucket when the bucket is
\* absent and ErrRepositoryExists when it is present
InitRepositoryBucket ==
    /\ initPc \in {"chunk", "snapshot", "repository"}
    /\ LET b == InitBucketAt(initPc) IN
       \E e \in BucketExists(buckets, b), m \in MakeBucket(buckets, b) :
         LET r == InitBlock(initPc, buckets, e, m) IN
         /\ buckets' = r.buckets
         /\ initResult' = r.result
         /\ initPc' = r.pc
    /\ UNCHANGED <<bucketsBefore, backend, s3vars, addvars, pathvars, savevars>>

\* the caller takes the result; it may call again
InitRepositoryReturn ==
    /\ initPc = "done"
    /\ initPc' = "idle"
    /\ UNCHANGED <<buckets, initResult, bucketsBefore, backend, s3vars, addvars, pathvars, savevars>>

----------------------------------------------------------------------------
(* Paths.  A path string is a sequence of tokens: the separator "/" and    *)
(* element names; "/w/f" is <<"/", "w", "/", "f">> and "." is <<".">>.     *)

Sep == "/"

IsAbs(s) == s # <<>> /\ s[1] = Sep

\* the elements of a clean path
Elements(s) == SelectSeq(s, LAMBDA t : t # Sep /\ t # ".")

RECURSIVE Join(_)
\* strings.Join(elems, "/")
Join(elems) ==
    IF elems = <<>> THEN <<>>
    ELSE IF Len(elems) = 1 THEN <<elems[1]>>
    ELSE <<elems[1], Sep>> \o Join(Tail(elems))

AbsPath(elems) == <<Sep>> \o Join(elems)

RECURSIVE CommonLen(_, _)
\* number of leading elements two paths share
CommonLen(b, t) ==
    IF b = <<>> \/ t = <<>> \/ Head(b) # Head(t) THEN 0
    ELSE 1 + CommonLen(Tail(b), Tail(t))

ErrRel == "Rel: can't make relative"

\* filepath.Rel(basepath, targpath) on clean paths: (path, err)
Rel(basepath, targpath) ==
    LET base == Elements(basepath)
        targ == Elements(targpath)
        k == CommonLen(base, targ)
        up == [i \in 1..(Len(base) - k) |-> ".."]
    IN IF IsAbs(basepath) = IsAbs(targpath) /\ base = targ
       THEN [path |-> <<".">>, err |-> Nil]
       ELSE IF IsAbs(basepath) # IsAbs(targpath)
       THEN [path |-> <<>>, err |-> ErrRel]
       ELSE IF k < Len(base) /\ base[k + 1] = ".."
       THEN [path |-> <<>>, err |-> ErrRel]
       ELSE [path |-> Join(up \o SubSeq(targ, k + 1, Len(targ))), err |-> Nil]

\* strings.HasPrefix(s, prefix)
HasPrefix(s, prefix) ==
    Len(s) >= Len(prefix) /\ SubSeq(s, 1, Len(prefix)) = prefix

\* snapshot.go lines 58-61 and 99-102: the path an archive is given
RewritePath(dir, path) ==
    LET r == Rel(dir, path) IN
    IF r.err = Nil /\ ~HasPrefix(r.path, <<"..", Sep>>) THEN r.path ELSE path

\* isSpecialPath(path): the path lies under /dev
isSpecialPath(path) == HasPrefix(path, <<Sep, "dev">>)

----------------------------------------------------------------------------
(* The snapshot pipeline: Snapshot.Add and Snapshot.gatherTargetInformation *)

MaxResults == 2      \* results findFiles yields during one run of Add
MaxChunks == 2       \* chunks of the largest file

ErrDiscover == "discovery error"
ErrOpen == "open error"
ErrNotExist == "not exist"
ErrChunk == "chunk error"

\* line 86: fwd := make(chan ArchiveResult), a channel without buffer
FwdCapacity == 0

File == "File"
Directory == "Directory"

Cwds == { AbsPath(<<"w">>), AbsPath(<<>>) }
DirPaths == { AbsPath(<<"w">>), AbsPath(<<"dev">>) }
FilePaths == { AbsPath(<<"w", "f">>), AbsPath(<<"dev", "f">>) }

\* the hash of chunk i of the files: a, b, a, b, ...
HashAt(i) == IF i % 2 = 1 THEN <<"a">> ELSE <<"b">>

\* file contents: the hashes of the file's chunks, in order
Contents == { [i \in 1..n |-> HashAt(i)] : n \in 1..MaxChunks }

\* the ArchiveResult values findFiles can yield
Results ==
    { [error |-> ErrDiscover, path |-> <<>>, type |-> Directory, content |-> <<>>] }
    \cup { [error |-> Nil, path |-> p, type |-> Directory, content |-> <<>>] :
             p \in DirPaths }
    \cup { [error |-> Nil, path |-> p, type |-> File, content |-> c] :
             p \in FilePaths, c \in Contents }

\* a result in the pipeline carries its number in discovery order (id) and
\* the path findFiles gave it (orig) next to the fields of ArchiveResult
NoResult == [id |-> 0, error |-> Nil, path |-> <<>>, orig |-> <<>>, type |-> Directory,
             content |-> <<>>]

\* Archive.Size: every chunk holds one byte of the file
ChunkSize(hash) == 1
ArchiveSize(r) == Len(r.content)

\* the payload of shard i of a chunk
ShardData(hash, i) == 1

\* the chunk the chunker emits as number pos (from 0) of a file
ChunkAt(content, pos) == [hash |-> content[pos + 1], num |-> pos]

\* all chunks of a file, as the chunker emits them
ChunksOf(content) == [i \in 1..Len(content) |-> ChunkAt(content, i - 1)]

\* every shard of every chunk of the content is in the chunk bucket
AllStored(objs, content) ==
    \A i \in 1..Len(content), pt \in ShardArgs :
        objs[FileName(content[i], pt[1], pt[2])] # NoObject

RECURSIVE StoreShards(_, _, _, _)
\* Backend.StoreChunk(chunk), from shard i on: StoreChunk of the storage
\* backend for each shard, the sizes added up, stopping at the first error
StoreShards(objs, hash, i, size) ==
    IF i = TotalShards THEN { [objects |-> objs, size |-> size, err |-> Nil] }
    ELSE UNION { IF r.err # Nil
                 THEN { [objects |-> r.objects, size |-> size, err |-> r.err] }
                 ELSE StoreShards(r.objects, hash, i + 1, size + r.size)
                 : r \in StoreChunk(objs, hash, i, TotalShards, ShardData(hash, i)) }

BackendStoreChunk(objs, chunk) == StoreShards(objs, chunk.hash, 0, 0)

NoArchive == [id |-> 0, path |-> <<>>, orig |-> <<>>, type |-> Directory, content |-> <<>>,
              chunks |-> <<>>, storageSize |-> 0]
NoEvent == [id |-> 0, error |-> Nil, total |-> [Size |-> 0, Transferred |-> 0, StorageSize |-> 0],
            transferred |-> 0, storageSize |-> 0]
NoOpen == [present |-> FALSE, storage |-> 0]

\* newProgress(archive) and newProgressError(err)
newProgress(id) == [NoEvent EXCEPT !.id = id]
newProgressError(id, err) == [NoEvent EXCEPT !.id = id, !.error = err]

\* lines 57-64: what gatherTargetInformation makes of a result without error
GatherPath(dir, path) == RewritePath(dir, path)

\* a variant of AppendChunk that puts the new chunk first
PrependChunk(chunks, chunk) == <<chunk>> \o chunks

\* line 150: archive.Chunks = append(archive.Chunks, chunk)
AppendChunk(chunks, chunk) == Append(chunks, chunk)

\* line 130: the error the event of a failed chunk carries: err of line 115,
\* which is nil once line 116 is passed, and not cd.Error
ChunkErrorSent(cdError, err) == err

\* lines 53-56: findFiles yields a result, or its channel is closed
GatherNext ==
    /\ gPc = "next"
    /\ \/ /\ found < MaxResults
          /\ found' = found + 1
          /\ \E res \in Results :
               IF res.error = Nil
               THEN LET path == GatherPath(cwd, res.path) IN
                    IF isSpecialPath(path)
                    THEN gPc' = "next" /\ gCur' = NoResult
                    ELSE /\ gPc' = "lock"
                         /\ gCur' = [id |-> found + 1, error |-> Nil, path |-> path,
                                     orig |-> res.path, type |-> res.type,
                                     content |-> res.content]
               ELSE /\ gPc' = "spawn"
                    /\ gCur' = [id |-> found + 1, error |-> res.error, path |-> res.path,
                                orig |-> res.path, type |-> res.type,
                                content |-> res.content]
       \/ /\ gPc' = "wait"
          /\ UNCHANGED <<found, gCur>>
    /\ UNCHANGED <<cwd, lastRecv, forwarders, fwdClosed, mutex, stats, archives, index, sPc, sCur,
                   sPos, sEvent, progress, consumer, lastEvent, errorEvents, terminal,
                   vanished, closeCount, openState, s3vars, initvars, pathvars, savevars>>

\* line 66: snapshot.Lock()
GatherLock ==
    /\ gPc = "lock"
    /\ mutex = "free"
    /\ mutex' = "gather"
    /\ gPc' = "size"
    /\ UNCHANGED <<cwd, lastRecv, gCur, found, forwarders, fwdClosed, stats, archives, index, sPc,
                   sCur, sPos, sEvent, progress, consumer, lastEvent, errorEvents,
                   terminal, vanished, closeCount, openState, s3vars, initvars, pathvars, savevars>>

\* lines 67-68: snapshot.Stats.Size += result.Archive.Size; snapshot.Unlock()
GatherSize ==
    /\ gPc = "size"
    /\ stats' = [stats EXCEPT !.Size = @ + ArchiveSize(gCur)]
    /\ mutex' = "free"
    /\ gPc' = "spawn"
    /\ UNCHANGED <<cwd, lastRecv, gCur, found, forwarders, fwdClosed, archives, index, sPc, sCur,
                   sPos, sEvent, progress, consumer, lastEvent, errorEvents, terminal,
                   vanished, closeCount, openState, s3vars, initvars, pathvars, savevars>>

\* lines 71-75: wg.Add(1) and the goroutine that will send the result
GatherSpawn ==
    /\ gPc = "spawn"
    /\ forwarders' = forwarders \cup {gCur}
    /\ gCur' = NoResult
    /\ gPc' = "next"
    /\ UNCHANGED <<cwd, lastRecv, found, fwdClosed, mutex, stats, archives, index, sPc, sCur, sPos,
                   sEvent, progress, consumer, lastEvent, errorEvents, terminal,
                   vanished, closeCount, openState, s3vars, initvars, pathvars, savevars>>

\* a variant of ClosedAfterWait: gatherTargetInformation returns without
\* closing the channel
NotClosedAfterWait == FALSE

\* line 80: close(out)
ClosedAfterWait == TRUE

\* lines 79-80: wg.Wait() returns when every forwarder has sent; close(out)
GatherClose ==
    /\ gPc = "wait"
    /\ forwarders = {}
    /\ fwdClosed' = ClosedAfterWait
    /\ gPc' = "done"
    /\ UNCHANGED <<cwd, lastRecv, gCur, found, forwarders, mutex, stats, archives, index, sPc, sCur,
                   sPos, sEvent, progress, consumer, lastEvent, errorEvents, terminal,
                   vanished, closeCount, openState, s3vars, initvars, pathvars, savevars>>

\* lines 73-74 and 91-107: a forwarder's send meets stage 2's receive
S2Receive ==
    /\ sPc = "recv"
    /\ \E r \in forwarders :
         /\ forwarders' = forwarders \ {r}
         /\ IF r.error # Nil
            THEN /\ sEvent' = newProgressError(r.id, r.error)
                 /\ terminal' = "discovery"
                 /\ sPc' = "sendErrorBreak"
                 /\ UNCHANGED sCur
            ELSE LET path == RewritePath(cwd, r.path) IN
                 IF isSpecialPath(path)
                 THEN UNCHANGED <<sEvent, terminal, sPc, sCur>>
                 ELSE /\ sCur' = [id |-> r.id, path |-> path, orig |-> r.orig,
                                  type |-> r.type, content |-> r.content, chunks |-> <<>>,
                                  storageSize |-> 0]
                      /\ sEvent' = newProgress(r.id)
                      /\ sPc' = "lock1"
                      /\ UNCHANGED terminal
         /\ lastRecv' = r.id
    /\ UNCHANGED <<cwd, gPc, gCur, found, fwdClosed, mutex, stats, archives, index, sPos,
                   progress, consumer, lastEvent, errorEvents, vanished, closeCount,
                   openState, s3vars, initvars, pathvars, savevars>>

\* line 91: the range over fwd ends when fwd is closed
S2RangeEnd ==
    /\ sPc = "recv"
    /\ fwdClosed
    /\ sPc' = "close"
    /\ UNCHANGED <<cwd, lastRecv, gPc, gCur, found, forwarders, fwdClosed, mutex, stats, archives,
                   index, sCur, sPos, sEvent, progress, consumer, lastEvent, errorEvents,
                   terminal, vanished, closeCount, openState, s3vars, initvars, pathvars, savevars>>

\* lines 108 and 158: snapshot.Lock()
S2Lock ==
    /\ sPc \in {"lock1", "lock2"}
    /\ mutex = "free"
    /\ mutex' = "stage2"
    /\ sPc' = IF sPc = "lock1" THEN "snap1" ELSE "snap2"
    /\ UNCHANGED <<cwd, lastRecv, gPc, gCur, found, forwarders, fwdClosed, stats, archives, index,
                   sCur, sPos, sEvent, progress, consumer, lastEvent, errorEvents,
                   terminal, vanished, closeCount, openState, s3vars, initvars, pathvars, savevars>>

\* lines 109-110 and 159-160: p.TotalStatistics = snapshot.Stats; snapshot.Unlock()
S2Snap ==
    /\ sPc \in {"snap1", "snap2"}
    /\ sEvent' = [sEvent EXCEPT !.total = stats]
    /\ mutex' = "free"
    /\ sPc' = IF sPc = "snap1" THEN "sendStart" ELSE "sendChunk"
    /\ UNCHANGED <<cwd, lastRecv, gPc, gCur, found, forwarders, fwdClosed, stats, archives, index,
                   sCur, sPos, progress, consumer, lastEvent, errorEvents, terminal,
                   vanished, closeCount, openState, s3vars, initvars, pathvars, savevars>>

\* lines 111 and 161: progress <- p, met by the consumer's receive
S2SendProgress ==
    /\ sPc \in {"sendStart", "sendChunk"}
    /\ consumer = "receiving"
    /\ lastEvent' = sEvent
    /\ errorEvents' = IF sEvent.error # Nil THEN errorEvents \cup {sEvent.id}
                      ELSE errorEvents
    /\ sPc' = IF sPc = "sendChunk" THEN "chunk"
              ELSE IF sCur.type = File THEN "open" ELSE "add"
    /\ UNCHANGED <<cwd, lastRecv, gPc, gCur, found, forwarders, fwdClosed, mutex, stats, archives,
                   index, sCur, sPos, sEvent, progress, consumer, terminal, vanished,
                   closeCount, openState, s3vars, initvars, pathvars, savevars>>

\* lines 94, 122, 131 and 142: progress <- p for an error event
S2SendError ==
    /\ sPc \in {"sendErrorBreak", "sendErrorReturn"}
    /\ consumer = "receiving"
    /\ lastEvent' = sEvent
    /\ errorEvents' = IF sEvent.error # Nil THEN errorEvents \cup {sEvent.id}
                      ELSE errorEvents
    /\ sPc' = IF sPc = "sendErrorBreak" THEN "close" ELSE "closeReturn"
    /\ UNCHANGED <<cwd, lastRecv, gPc, gCur, found, forwarders, fwdClosed, mutex, stats, archives,
                   index, sCur, sPos, sEvent, progress, consumer, terminal, vanished,
                   closeCount, openState, s3vars, initvars, pathvars, savevars>>

\* a variant of OpenOutcome without the os.IsNotExist test
OpenOutcomeNoSkip(err) ==
    IF err = Nil THEN "chunk" ELSE "fail"

\* lines 116-124: what Add does with the error of chunkFile
OpenOutcome(err) ==
    IF err = Nil THEN "chunk"
    ELSE IF err = ErrNotExist THEN "continue"
    ELSE "fail"

\* lines 113-126: chunkFile opens the file
S2Open ==
    /\ sPc = "open"
    /\ \E err \in {Nil, ErrNotExist, ErrOpen} :
         /\ vanished' = IF err = ErrNotExist THEN vanished \cup {sCur.id} ELSE vanished
         /\ CASE OpenOutcome(err) = "chunk" ->
                   /\ sPc' = "chunk"
                   /\ sPos' = 0
                   /\ openState' = [present |-> AllStored(objects, sCur.content),
                                    storage |-> stats.StorageSize]
                   /\ UNCHANGED <<sEvent, terminal>>
              [] OpenOutcome(err) = "continue" ->
                   /\ sPc' = "recv"
                   /\ UNCHANGED <<sPos, openState, sEvent, terminal>>
              [] OpenOutcome(err) = "fail" ->
                   /\ sEvent' = newProgressError(sCur.id, err)
                   /\ terminal' = "open"
                   /\ sPc' = "sendErrorBreak"
                   /\ UNCHANGED <<sPos, openState>>
    /\ UNCHANGED <<cwd, lastRecv, gPc, gCur, found, forwarders, fwdClosed, mutex, stats, archives,
                   index, sCur, progress, consumer, lastEvent, errorEvents, closeCount,
                   s3vars, initvars, pathvars, savevars>>

\* a variant of StoreFailed that ignores the error of StoreChunk
StoreFailedIgnored(err) == FALSE

\* line 140: if err != nil, after repository.Backend.StoreChunk(chunk)
StoreFailed(err) == err # Nil

\* lines 128-156: the next value of chunkchan: an error, or a chunk that is
\* stored and appended to the archive; the range ends when the file is done
S2Chunk ==
    /\ sPc = "chunk"
    /\ \/ /\ sPos = Len(sCur.content)
          /\ sPc' = "add"
          /\ UNCHANGED <<sEvent, terminal, objects, sCur, stats, sPos>>
       \/ /\ sEvent' = newProgressError(sCur.id, ChunkErrorSent(ErrChunk, Nil))
          /\ terminal' = "chunk"
          /\ sPc' = "sendErrorReturn"
          /\ UNCHANGED <<objects, sCur, stats, sPos>>
       \/ /\ sPos < Len(sCur.content)
          /\ LET chunk == ChunkAt(sCur.content, sPos) IN
             \E r \in BackendStoreChunk(objects, chunk) :
               /\ objects' = r.objects
               /\ IF StoreFailed(r.err)
                  THEN /\ sEvent' = newProgressError(sCur.id, r.err)
                       /\ terminal' = "store"
                       /\ sPc' = "sendErrorReturn"
                       /\ UNCHANGED <<sCur, stats, sPos>>
                  ELSE /\ sCur' = [sCur EXCEPT
                                     !.chunks = AppendChunk(@, chunk),
                                     !.storageSize = @ + r.size]
                       /\ sEvent' = [sEvent EXCEPT
                                     !.storageSize = sCur.storageSize + r.size,
                                     !.transferred = @ + ChunkSize(chunk.hash)]
                       /\ stats' = [stats EXCEPT
                                     !.Transferred = @ + ChunkSize(chunk.hash),
                                     !.StorageSize = @ + r.size]
                       /\ sPos' = sPos + 1
                       /\ sPc' = "lock2"
                       /\ UNCHANGED terminal
    /\ UNCHANGED <<cwd, lastRecv, gPc, gCur, found, forwarders, fwdClosed, mutex, archives, index,
                   progress, consumer, lastEvent, errorEvents, vanished, closeCount,
                   openState, calls, initvars, pathvars, savevars>>

\* lines 165-166: snapshot.AddArchive(archive); chunkIndex.AddArchive(archive, ID)
S2AddArchive ==
    /\ sPc = "add"
    /\ archives' = (sCur.path :> sCur) @@ archives
    /\ index' = index \cup { [hash |-> sCur.chunks[i].hash, id |-> sCur.id,
                              path |-> sCur.path] : i \in 1..Len(sCur.chunks) }
    /\ sPc' = "recv"
    /\ UNCHANGED <<cwd, lastRecv, gPc, gCur, found, forwarders, fwdClosed, mutex, stats, sCur, sPos,
                   sEvent, progress, consumer, lastEvent, errorEvents, terminal,
                   vanished, closeCount, openState, s3vars, initvars, pathvars, savevars>>

\* a variant of AfterCloseReturn without the return: stage 2 goes on to the
\* close of line 168
AfterCloseNoReturn == "close"

\* lines 133 and 144: return, the goroutine of Add ends
AfterCloseReturn == "done"

\* lines 132-133 and 143-144: close(progress); return
S2CloseReturn ==
    /\ sPc = "closeReturn"
    /\ progress' = "closed"
    /\ closeCount' = closeCount + 1
    /\ sPc' = AfterCloseReturn
    /\ UNCHANGED <<cwd, lastRecv, gPc, gCur, found, forwarders, fwdClosed, mutex, stats, archives,
                   index, sCur, sPos, sEvent, consumer, lastEvent, errorEvents, terminal,
                   vanished, openState, s3vars, initvars, pathvars, savevars>>

\* line 168: close(progress) after the loop
S2Close ==
    /\ sPc = "close"
    /\ progress' = "closed"
    /\ closeCount' = closeCount + 1
    /\ sPc' = "done"
    /\ UNCHANGED <<cwd, lastRecv, gPc, gCur, found, forwarders, fwdClosed, mutex, stats, archives,
                   index, sCur, sPos, sEvent, consumer, lastEvent, errorEvents, terminal,
                   vanished, openState, s3vars, initvars, pathvars, savevars>>

\* the receiver of Add's channel stops receiving
ConsumerDrop ==
    /\ consumer = "receiving"
    /\ progress = "open"
    /\ consumer' = "dropped"
    /\ UNCHANGED <<cwd, lastRecv, gPc, gCur, found, forwarders, fwdClosed, mutex, stats, archives,
                   index, sPc, sCur, sPos, sEvent, progress, lastEvent, errorEvents,
                   terminal, vanished, closeCount, openState, s3vars, initvars, pathvars, savevars>>

\* the steps of the pipeline's goroutines
PipelineNext ==
    \/ GatherNext
    \/ GatherLock
    \/ GatherSize
    \/ GatherSpawn
    \/ GatherClose
    \/ S2Receive
    \/ S2RangeEnd
    \/ S2Lock
    \/ S2Snap
    \/ S2SendProgress
    \/ S2SendError
    \/ S2Open
    \/ S2Chunk
    \/ S2AddArchive
    \/ S2CloseReturn
    \/ S2Close

\* the state of the pipeline's variables before Add is called
NoPipeline ==
    /\ cwd = AbsPath(<<>>)
    /\ gPc = "done"
    /\ gCur = NoResult
    /\ found = 0
    /\ forwarders = {}
    /\ fwdClosed = FALSE
    /\ mutex = "free"
    /\ stats = [Size |-> 0, Transferred |-> 0, StorageSize |-> 0]
    /\ archives = <<>>
    /\ index = {}
    /\ sPc = "done"
    /\ sCur = NoArchive
    /\ sPos = 0
    /\ sEvent = NoEvent
    /\ progress = "open"
    /\ consumer = "receiving"
    /\ lastEvent = NoEvent
    /\ errorEvents = {}
    /\ terminal = "none"
    /\ vanished = {}
    /\ closeCount = 0
    /\ openState = NoOpen
    /\ lastRecv = 0

\* the chunk bucket when Add starts: each chunk stored whole by an earlier
\* run, or not at all
StoredBefore(hs) ==
    [n \in BlobNames |->
        IF \E h \in hs, pt \in ShardArgs : n = FileName(h, pt[1], pt[2])
        THEN ShardData(<<>>, 0) ELSE NoObject]

----------------------------------------------------------------------------
(* The path rewrite of snapshot.go lines 58-61 and 99-102, on its own *)

MaxDepth == 2        \* elements of the longest directory or path

PathElems == {"a", "b"}

\* the clean absolute paths of at most MaxDepth elements
AbsPaths == { AbsPath(e) : e \in UNION { [1..n -> PathElems] : n \in 0..MaxDepth } }

NoPath ==
    /\ pCwd = <<Sep>>
    /\ pPath = <<Sep>>
    /\ pArchive = <<Sep>>
    /\ pStage = "added"

\* gatherTargetInformation, lines 58-61
PathGather ==
    /\ pStage = "found"
    /\ pArchive' = RewritePath(pCwd, pArchive)
    /\ pStage' = "gathered"
    /\ UNCHANGED <<pCwd, pPath, s3vars, initvars, addvars, savevars>>

\* Add, lines 98-102
PathAdd ==
    /\ pStage = "gathered"
    /\ pArchive' = RewritePath(pCwd, pArchive)
    /\ pStage' = "added"
    /\ UNCHANGED <<pCwd, pPath, s3vars, initvars, addvars, savevars>>

----------------------------------------------------------------------------
(* Snapshot.Save and openSnapshot *)

MaxVersion == 3      \* largest repository version

CompressionNone == 0
CompressionGZip == 1
CompressionLZMA == 2

Versions == 0..MaxVersion
Passwords == {"pw1", "pw2"}

ErrDecrypt == "decrypt error"
ErrUncompress == "uncompress error"
ErrUnmarshal == "unmarshal error"

NoBytes == [kind |-> "none"]

\* the snapshots Save is called on
Snapshots ==
    { [ID |-> id, Date |-> 1, Description |-> d,
       Stats |-> [Size |-> n, Transferred |-> n, StorageSize |-> 0],
       Archives |-> a] :
      id \in {"s1", "s2"}, d \in {"", "d"}, n \in {0, 1},
      a \in { <<>>, (<<"f">> :> [path |-> <<"f">>, type |-> File,
                                  chunks |-> ChunksOf(<<HashAt(1)>>)]) } }

NoSnapshot == [ID |-> "", Date |-> 0, Description |-> "",
               Stats |-> [Size |-> 0, Transferred |-> 0, StorageSize |-> 0],
               Archives |-> <<>>]

\* json.Marshal(snapshot): the fields under their json names (lines 27-31)
Marshal(snapshot) ==
    [kind |-> "json",
     body |-> [id |-> snapshot.ID, date |-> snapshot.Date,
               description |-> snapshot.Description, stats |-> snapshot.Stats,
               items |-> snapshot.Archives]]

\* json.Unmarshal(b, &snapshot): (snapshot, err)
Unmarshal(b) ==
    IF b.kind # "json" THEN [snapshot |-> NoSnapshot, err |-> ErrUnmarshal]
    ELSE [snapshot |-> [ID |-> b.body.id, Date |-> b.body.date,
                        Description |-> b.body.description, Stats |-> b.body.stats,
                        Archives |-> b.body.items],
          err |-> Nil]

\* Compress(b, compression) for GZip and LZMA
Compress(b, compression) == [kind |-> "compressed", codec |-> compression, body |-> b]

\* Uncompress(b, compression): (bytes, err)
Uncompress(b, compression) ==
    IF b.kind = "compressed" /\ b.codec = compression
    THEN [bytes |-> b.body, err |-> Nil]
    ELSE [bytes |-> NoBytes, err |-> ErrUncompress]

\* Encrypt(b, password)
Encrypt(b, password) == [kind |-> "encrypted", password |-> password, body |-> b]

\* Decrypt(b, password): (bytes, err)
Decrypt(b, password) ==
    IF b.kind = "encrypted" /\ b.password = password
    THEN [bytes |-> b.body, err |-> Nil]
    ELSE [bytes |-> NoBytes, err |-> ErrDecrypt]

\* lines 226-232: the codec Save uses
SaveCompression(version) ==
    CASE version = 1 -> CompressionGZip
      [] version = 2 -> CompressionLZMA
      [] OTHER -> CompressionNone

\* a variant of OpenCompression with the codecs of versions 1 and 2 exchanged
OpenCompressionSwapped(version) ==
    CASE version = 1 -> CompressionLZMA
      [] version = 2 -> CompressionGZip
      [] OTHER -> CompressionNone

\* lines 200-206: the codec openSnapshot uses
OpenCompression(version) ==
    CASE version = 1 -> CompressionGZip
      [] version = 2 -> CompressionLZMA
      [] OTHER -> CompressionNone

\* lines 220-240: the bytes Save hands to SaveSnapshot
SaveBytes(snapshot, repository) ==
    LET b == Marshal(snapshot)
        compression == SaveCompression(repository.version)
        c == IF compression # CompressionNone THEN Compress(b, compression) ELSE b
    IN Encrypt(c, repository.password)

\* lines 195-215: what openSnapshot makes of the bytes LoadSnapshot returned
OpenBytes(b, repository) ==
    LET d == Decrypt(b, repository.password)
        compression == OpenCompression(repository.version)
        u == IF compression # CompressionNone THEN Uncompress(d.bytes, compression)
             ELSE [bytes |-> d.bytes, err |-> Nil]
    IN IF d.err # Nil THEN [snapshot |-> NoSnapshot, err |-> d.err]
       ELSE IF u.err # Nil THEN [snapshot |-> NoSnapshot, err |-> u.err]
       ELSE Unmarshal(u.bytes)

NoSave ==
    /\ svSnapshot = NoSnapshot
    /\ svRepo = [version |-> 0, password |-> "", savedVersion |-> 0,
                 savedPassword |-> ""]
    /\ svStore = <<>>
    /\ svPc = "closed"
    /\ svErr = Nil
    /\ svOpened = NoSnapshot

\* Snapshot.Save: SaveSnapshot (a PutObject) can fail
Save ==
    /\ svPc = "new"
    /\ \E err \in {Nil, ErrClient} :
         /\ svErr' = err
         /\ svStore' = IF err = Nil
                       THEN (svSnapshot.ID :> SaveBytes(svSnapshot, svRepo)) @@ svStore
                       ELSE svStore
         /\ svPc' = IF err = Nil THEN "saved" ELSE "closed"
    /\ UNCHANGED <<svSnapshot, svRepo, svOpened, s3vars, initvars, addvars, pathvars>>

\* the repository is opened again, with some version and password
Reopen ==
    /\ svPc = "saved"
    /\ \E v \in Versions, pw \in Passwords :
         svRepo' = [version |-> v, password |-> pw, savedVersion |-> svRepo.version,
                    savedPassword |-> svRepo.password]
    /\ svPc' = "reopened"
    /\ UNCHANGED <<svSnapshot, svStore, svErr, svOpened, s3vars, initvars, addvars,
                   pathvars>>

\* openSnapshot: LoadSnapshot (a GetObject) can fail
OpenSnapshot ==
    /\ svPc = "reopened"
    /\ \E err \in {Nil, ErrClient} :
         IF err # Nil
         THEN svErr' = err /\ svOpened' = NoSnapshot
         ELSE LET r == OpenBytes(svStore[svSnapshot.ID], svRepo) IN
              svErr' = r.err /\ svOpened' = r.snapshot
    /\ svPc' = "opened"
    /\ UNCHANGED <<svSnapshot, svRepo, svStore, s3vars, initvars, addvars, pathvars>>

----------------------------------------------------------------------------
(* Specifications *)

InitS3 ==
    /\ objects = [n \in BlobNames |-> NoObject]
    /\ calls = [c \in Callers |-> IdleCall]
    /\ buckets = BucketNames
    /\ backend = NoBackend
    /\ initPc = "idle"
    /\ initResult = Nil
    /\ bucketsBefore = {}
    /\ NoPipeline
    /\ NoPath
    /\ NoSave

NextS3 ==
    \E c \in Callers :
        \/ StoreChunkStat(c)
        \/ StoreChunkPut(c)
        \/ StoreChunkReturn(c)

SpecS3 == InitS3 /\ [][NextS3]_vars

InitInit ==
    /\ objects = [n \in BlobNames |-> NoObject]
    /\ calls = [c \in Callers |-> IdleCall]
    /\ buckets \in SUBSET BucketNames
    /\ backend = NoBackend
    /\ initPc = "idle"
    /\ initResult = Nil
    /\ bucketsBefore = {}
    /\ NoPipeline
    /\ NoPath
    /\ NoSave

NextInit ==
    \/ NewBackend
    \/ InitRepositoryCall
    \/ InitRepositoryBucket
    \/ InitRepositoryReturn

SpecInit == InitInit /\ [][NextInit]_vars

\* Add has just been called: both goroutines are started
InitAdd ==
    /\ objects \in {StoredBefore(hs) : hs \in SUBSET Hashes}
    /\ calls = [c \in Callers |-> IdleCall]
    /\ buckets = BucketNames
    /\ backend = NoBackend
    /\ initPc = "idle"
    /\ initResult = Nil
    /\ bucketsBefore = {}
    /\ cwd \in Cwds
    /\ gPc = "next"
    /\ gCur = NoResult
    /\ found = 0
    /\ forwarders = {}
    /\ fwdClosed = FALSE
    /\ mutex = "free"
    /\ stats = [Size |-> 0, Transferred |-> 0, StorageSize |-> 0]
    /\ archives = <<>>
    /\ index = {}
    /\ sPc = "recv"
    /\ sCur = NoArchive
    /\ sPos = 0
    /\ sEvent = NoEvent
    /\ progress = "open"
    /\ consumer = "receiving"
    /\ lastEvent = NoEvent
    /\ errorEvents = {}
    /\ terminal = "none"
    /\ vanished = {}
    /\ closeCount = 0
    /\ openState = NoOpen
    /\ lastRecv = 0
    /\ NoPath
    /\ NoSave

NextAdd ==
    \/ PipelineNext
    \/ ConsumerDrop

SpecAdd == InitAdd /\ [][NextAdd]_vars

\* the steps of the goroutine of gatherTargetInformation
GatherSteps == GatherNext \/ GatherLock \/ GatherSize \/ GatherSpawn \/ GatherClose

\* the steps of the goroutine of Add; the receive of line 91 is also the send
\* of a forwarding goroutine, the sends on progress are also the consumer's
\* receives
Stage2Steps ==
    \/ S2Receive \/ S2RangeEnd \/ S2Lock \/ S2Snap \/ S2SendProgress \/ S2SendError
    \/ S2Open \/ S2Chunk \/ S2AddArchive \/ S2CloseReturn \/ S2Close

\* the Go scheduler runs every goroutine that can run; the consumer may stop
\* receiving at any time
SpecAddFair ==
    /\ InitAdd
    /\ [][NextAdd]_vars
    /\ WF_vars(GatherSteps)
    /\ WF_vars(Stage2Steps)

\* a path has been discovered
InitPath ==
    /\ objects = [n \in BlobNames |-> NoObject]
    /\ calls = [c \in Callers |-> IdleCall]
    /\ buckets = BucketNames
    /\ backend = NoBackend
    /\ initPc = "idle"
    /\ initResult = Nil
    /\ bucketsBefore = {}
    /\ NoPipeline
    /\ NoSave
    /\ pCwd \in AbsPaths
    /\ pPath \in AbsPaths
    /\ pArchive = pPath
    /\ pStage = "found"

NextPath ==
    \/ PathGather
    \/ PathAdd

SpecPath == InitPath /\ [][NextPath]_vars

\* a snapshot is about to be saved
InitSave ==
    /\ objects = [n \in BlobNames |-> NoObject]
    /\ calls = [c \in Callers |-> IdleCall]
    /\ buckets = BucketNames
    /\ backend = NoBackend
    /\ initPc = "idle"
    /\ initResult = Nil
    /\ bucketsBefore = {}
    /\ NoPipeline
    /\ NoPath
    /\ svSnapshot \in Snapshots
    /\ svRepo \in { [version |-> v, password |-> pw, savedVersion |-> v,
                      savedPassword |-> pw] : v \in Versions, pw \in Passwords }
    /\ svStore = <<>>
    /\ svPc = "new"
    /\ svErr = Nil
    /\ svOpened = NoSnapshot

NextSave ==
    \/ Save
    \/ Reopen
    \/ OpenSnapshot

SpecSave == InitSave /\ [][NextSave]_vars

----------------------------------------------------------------------------
(* Properties of StoreChunk (SpecS3) *)

\* a finished call that overlapped no other call
SequentialCall(c) == calls[c].pc = "done" /\ calls[c].conc = {}

\* C1: a call that overlaps no other call and names a blob that exists when
\* the call starts returns size 0 and no error and leaves the blob's bytes as
\* they were; one that names an absent blob and returns no error has stored
\* its data and returns the data's size.
C1_StoreChunkIdempotent ==
    \A c \in Callers :
        SequentialCall(c) =>
            /\ calls[c].pre # NoObject =>
                   /\ calls[c].size = 0
                   /\ calls[c].err = Nil
                   /\ calls[c].post = calls[c].pre
            /\ (calls[c].pre = NoObject /\ calls[c].err = Nil) =>
                   /\ calls[c].post = calls[c].data
                   /\ calls[c].size = calls[c].data

\* C2: of two finished calls that overlapped and name the same blob, at most
\* one has uploaded the blob and at most one returns a non-zero size.
C2_AtMostOnceUpload ==
    \A c1, c2 \in Callers :
        ( /\ c1 # c2
          /\ calls[c1].pc = "done" /\ calls[c2].pc = "done"
          /\ c2 \in calls[c1].conc
          /\ calls[c1].name = calls[c2].name )
        => /\ ~(calls[c1].uploaded /\ calls[c2].uploaded)
           /\ ~(calls[c1].size # 0 /\ calls[c2].size # 0)

----------------------------------------------------------------------------
(* Properties of InitRepository (SpecInit) *)

ExistedBefore == bucketsBefore \cap BackendBuckets(backend)

\* C3 as stated: a finished InitRepository call returns ErrRepositoryExists
\* whenever one of the backend's three buckets existed before the call, and
\* returns nil only when none existed, and then all three exist.
C3_ExistsAsStated ==
    initPc = "done" =>
        /\ ExistedBefore # {} => initResult = ErrRepositoryExists
        /\ initResult = Nil =>
               (ExistedBefore = {} /\ BackendBuckets(backend) \subseteq buckets)

\* C3 amended: a finished InitRepository call returns ErrRepositoryExists or
\* the error of a failed BucketExists or MakeBucket call whenever one of the
\* three buckets existed before the call; it returns nil only when none
\* existed, and then all three exist.
C3_ExistsOrClientError ==
    initPc = "done" =>
        /\ ExistedBefore # {} => initResult \in {ErrRepositoryExists, ErrClient}
        /\ initResult = Nil =>
               (ExistedBefore = {} /\ BackendBuckets(backend) \subseteq buckets)

\* C3 witness: the call found a later bucket present after creating the
\* chunk bucket, and returned ErrRepositoryExists
C3_Witness ==
    /\ initPc = "done"
    /\ initResult = ErrRepositoryExists
    /\ ExistedBefore # {}
    /\ backend.chunkBucket \notin bucketsBefore

\* C18: an InitRepository call that returned ErrRepositoryExists has created
\* no bucket: the buckets that exist are those that existed before the call.
C18_ExistsCreatesNothing ==
    (initPc = "done" /\ initResult = ErrRepositoryExists) => buckets = bucketsBefore

----------------------------------------------------------------------------
(* Properties of the pipeline (SpecAdd) *)

\* stage 2 is chunking the file in hand, or has just finished it
Chunking == sPc \in {"chunk", "lock2", "snap2", "sendChunk", "add"} /\ sCur.type = File

\* C4: while and after stage 2 chunks a file all of whose shards were in the
\* backend when the file was opened, the file's archive.StorageSize is 0 and
\* snapshot.Stats.StorageSize is what it was when the file was opened.
C4_DedupAddsNothing ==
    (Chunking /\ openState.present) =>
        /\ sCur.storageSize = 0
        /\ stats.StorageSize = openState.storage

\* C5: once the progress channel is closed after a terminal error, the last
\* event sent on it carries a non-nil error.
C5_LastEventCarriesError ==
    (progress = "closed" /\ terminal # "none") => lastEvent.error # Nil

\* every goroutine of the pipeline has ended
PipelineDone == sPc = "done" /\ gPc = "done" /\ forwarders = {}

\* C6: when the consumer has dropped the progress channel (and no terminal
\* error has occurred), the pipeline has ended or one of its
\* goroutines can still take a step: none is blocked for ever.
C6_DropReleases ==
    (consumer = "dropped" /\ terminal = "none") =>
        (PipelineDone \/ ENABLED PipelineNext)

C10_VanishedIsSkipped ==
    /\ [](\A id \in vanished :
            /\ id \notin errorEvents
            /\ \A p \in DOMAIN archives : archives[p].id # id
            /\ \A x \in index : x.id # id)
    /\ [][vanished' # vanished =>
            /\ sPc' = "recv"
            /\ UNCHANGED <<progress, terminal, archives, index, errorEvents>>]_vars

\* C10 witness: after a file was found gone, stage 2 is adding the archive of
\* another result
C10_Witness ==
    /\ vanished # {}
    /\ sPc = "add"
    /\ sCur.id \notin vanished

C12_ReceivedInDiscoveryOrder ==
    [][\A r \in forwarders \ forwarders' : r.id > lastRecv]_vars

\* C13: every step that changes snapshot.Stats or snapshot.Archives is taken
\* by a goroutine that holds the snapshot's mutex: discovery for Stats.Size,
\* stage 2 for Stats.Transferred, Stats.StorageSize and Archives.
C13_UpdatesUnderMutex ==
    [][ /\ stats'.Size # stats.Size => mutex = "gather"
        /\ ( \/ stats'.Transferred # stats.Transferred
             \/ stats'.StorageSize # stats.StorageSize
             \/ archives' # archives ) => mutex = "stage2" ]_vars

\* the hashes the chunk index holds
IndexedHashes == { x.hash : x \in index }

\* C14: a chunk for which stage 2 has just called Backend.StoreChunk (the
\* chunk it appended last, or the one whose StoreChunk failed) has a hash the
\* chunk index does not hold.
C14_StoreOnlyUnindexed ==
    /\ sPc = "lock2" => sCur.chunks[Len(sCur.chunks)].hash \notin IndexedHashes
    /\ terminal = "store" => ChunkAt(sCur.content, sPos).hash \notin IndexedHashes

\* every shard of the chunk is in the chunk bucket
ShardsStored(objs, hash) ==
    \A pt \in ShardArgs : objs[FileName(hash, pt[1], pt[2])] # NoObject

\* C15: every chunk that an archive of the snapshot or an entry of the chunk
\* index refers to is stored in the backend; an archive of a regular file in
\* the snapshot has all the chunks of the file; and the file on which the
\* pipeline hit a terminal error has no archive in the snapshot and no entry
\* in the chunk index.
C15_NoDanglingReference ==
    /\ \A p \in DOMAIN archives :
          /\ \A i \in 1..Len(archives[p].chunks) :
                ShardsStored(objects, archives[p].chunks[i].hash)
          /\ archives[p].type = File =>
                Len(archives[p].chunks) = Len(archives[p].content)
    /\ \A x \in index : ShardsStored(objects, x.hash)
    /\ terminal \in {"open", "chunk", "store"} =>
          /\ \A p \in DOMAIN archives : archives[p].id # sCur.id
          /\ \A x \in index : x.id # sCur.id

\* C15 witness: one file is in the snapshot with its chunks, and the pipeline
\* has stopped on a StoreChunk error of another file that had stored a chunk
C15_Witness ==
    /\ terminal = "store"
    /\ progress = "closed"
    /\ Len(sCur.chunks) > 0
    /\ \E p \in DOMAIN archives :
          archives[p].type = File /\ Len(archives[p].chunks) > 0

\* C16: once the progress channel is closed, gatherTargetInformation has
\* returned and none of its forwarding goroutines is left: none is blocked in
\* "out <- r" and no update of snapshot.Stats can follow.
C16_WorkersDrainedAtClose ==
    progress = "closed" => (gPc = "done" /\ forwarders = {})

\* C17: the results discovered and not yet received by stage 2 are at most
\* what the fwd channel holds plus the one result a blocked sender has in
\* hand, however many entries are discovered.
C17_BoundedBacklog ==
    Cardinality(forwarders) <= FwdCapacity + 1

\* stage 2 is about to send an event on the progress channel
Sending == sPc \in {"sendStart", "sendChunk", "sendErrorBreak", "sendErrorReturn"}

\* C20: close(progress) is executed at most once, exactly once when the
\* goroutine of Add has ended, and stage 2 never stands at a send on the
\* progress channel after the channel is closed.
C20_ClosedExactlyOnce ==
    /\ closeCount <= 1
    /\ sPc = "done" => closeCount = 1
    /\ progress = "closed" <=> closeCount > 0
    /\ Sending => progress = "open"

\* C20 witness: Add has ended through the return of line 144, after a
\* StoreChunk error, and through no other close
C20_Witness ==
    /\ sPc = "done"
    /\ terminal = "store"
    /\ closeCount = 1
    /\ lastEvent.error # Nil

\* C19: in every run of Add in which the consumer keeps receiving, the
\* progress channel is eventually closed: either the consumer stops receiving
\* at some point or the channel gets closed.
C19_AddClosesProgress ==
    <>(consumer = "dropped" \/ progress = "closed")

\* C19 witness: Add has closed the channel for a consumer that was receiving
\* to the end, after a run in which one file had vanished and another entry
\* was added
C19_Witness ==
    /\ progress = "closed"
    /\ consumer = "receiving"
    /\ terminal = "none"
    /\ vanished # {}
    /\ archives # <<>>

----------------------------------------------------------------------------
(* Properties of the path rewrite (SpecPath) *)

\* the entry lies inside the working directory
InsideCwd == CommonLen(Elements(pCwd), Elements(pPath)) = Len(Elements(pCwd))

\* the path of the entry relative to the working directory it lies inside
RelativeForm ==
    LET rest == SubSeq(Elements(pPath), Len(Elements(pCwd)) + 1, Len(Elements(pPath)))
    IN IF rest = <<>> THEN <<".">> ELSE Join(rest)

\* C8: once rewritten, the archive path is the path relative to the working
\* directory when the entry lies inside it and the unchanged absolute path
\* otherwise, and it has no ".." element.
C8_ArchivePathNormalized ==
    pStage \in {"gathered", "added"} =>
        /\ InsideCwd => pArchive = RelativeForm
        /\ ~InsideCwd => pArchive = pPath
        /\ \A i \in 1..Len(pArchive) : pArchive[i] # ".."

----------------------------------------------------------------------------
(* Properties of Save and openSnapshot (SpecSave) *)

\* openSnapshot has read the bytes Save wrote, with the version and password
\* Save ran with
OpenedAsSaved ==
    /\ svPc = "opened"
    /\ svErr # ErrClient
    /\ svRepo.version = svRepo.savedVersion
    /\ svRepo.password = svRepo.savedPassword

====
